---- MODULE Spec2Model ----
(***************************************************************************)
(* Chess position store, move-legality checker and move applier of         *)
(* chess-rust: Board (game/board.rs) and is_valid_move                     *)
(* (game/moves/move_checker.rs).                                           *)
(*                                                                         *)
(* A coordinate is a record [rank, file] of u8 values.  An Option<Piece>   *)
(* is a sequence of length 0 (None) or 1 (Some(p)).  A Result is a record  *)
(* [ok, move_type, capturing, err].                                        *)
(***************************************************************************)
EXTENDS Integers, Sequences, FiniteSets, TLC

VARIABLES
    board,          \* Board.board: 64 slots of Option<Piece>
    current_turn,   \* Board.current_turn
    move_list,      \* Board.move_list
    graveyard,      \* Board.graveyard: colour -> (kind -> count), a HashMap
    lastMove,       \* Option of the Move handed to the latest move_piece call
    lastResult,     \* Option of the checker's verdict in the latest move_piece call
    status          \* "running", or "panicked" once move_piece has panicked

vars == <<board, current_turn, move_list, graveyard, lastMove, lastResult, status>>

----------------------------------------------------------------------------
(* Bounds of the exploration *)

\* move_piece is not called any more once this many moves were applied:
\* MaxMoves under Spec, MaxMovesPawnRace under SpecPawnRace, MaxMovesBackRank
\* under SpecBackRank
MaxMoves == 6
MaxMovesPawnRace == 8
MaxMovesBackRank == 7
MaxMovesForged == 4
MaxMovesSkipped == 10

----------------------------------------------------------------------------
(* Piece model: game/piece.rs *)

White == "White"
Black == "Black"
PieceColor == {White, Black}
PieceType == {"Pawn", "Knight", "Bishop", "Rook", "Queen", "King"}
MoveType == {"Normal", "EnPassant", "Castling"}

None == <<>>
Some(x) == <<x>>
IsSome(o) == o # <<>>
Unwrap(o) == o[1]

\* flip as it would be with both arms returning the receiver
flip_stuck(self) == self

\* PieceColor::flip
flip(self) == IF self = Black THEN White ELSE Black

\* PieceLoc::new
PieceLoc(rank, file) == [rank |-> rank, file |-> file]

\* PieceLoc::is_valid
is_valid(rank, file) == rank <= 7 /\ file <= 7

\* Piece::new; the has_moved field read by the checker starts false
Piece_new(p_type, color) ==
    [piece_type |-> p_type, color |-> color, has_moved |-> FALSE]

\* u8::abs_diff
abs_diff(a, b) == IF a >= b THEN a - b ELSE b - a

\* `x as i8` of a u8
as_i8(x) == IF x < 128 THEN x ELSE x - 256

----------------------------------------------------------------------------
(* Position store: game/board.rs *)

\* Board.ranks and Board.files, set by Board::new and never changed
ranks == 8
files == 8

\* The Board value made of the current state
Self ==
    [board |-> board, current_turn |-> current_turn,
     move_list |-> move_list, graveyard |-> graveyard]

\* generate_default_board as it would be with Black's king and queen on each
\* other's square
generate_default_board_mirrored ==
    [i \in 0..(ranks * files - 1) |->
        CASE i \in {0, 7}   -> Some(Piece_new("Rook", White))
          [] i \in {1, 6}   -> Some(Piece_new("Knight", White))
          [] i \in {2, 5}   -> Some(Piece_new("Bishop", White))
          [] i = 3          -> Some(Piece_new("Queen", White))
          [] i = 4          -> Some(Piece_new("King", White))
          [] i \in 8..15    -> Some(Piece_new("Pawn", White))
          [] i \in 48..55   -> Some(Piece_new("Pawn", Black))
          [] i \in {56, 63} -> Some(Piece_new("Rook", Black))
          [] i \in {57, 62} -> Some(Piece_new("Knight", Black))
          [] i \in {58, 61} -> Some(Piece_new("Bishop", Black))
          [] i = 59         -> Some(Piece_new("King", Black))
          [] i = 60         -> Some(Piece_new("Queen", Black))
          [] OTHER          -> None]

\* Board::generate_default_board; slot i of the Vec is board[i], i in 0..63
generate_default_board ==
    [i \in 0..(ranks * files - 1) |->
        CASE i \in {0, 7}   -> Some(Piece_new("Rook", White))
          [] i \in {1, 6}   -> Some(Piece_new("Knight", White))
          [] i \in {2, 5}   -> Some(Piece_new("Bishop", White))
          [] i = 3          -> Some(Piece_new("Queen", White))
          [] i = 4          -> Some(Piece_new("King", White))
          [] i \in 8..15    -> Some(Piece_new("Pawn", White))
          [] i \in 48..55   -> Some(Piece_new("Pawn", Black))
          [] i \in {56, 63} -> Some(Piece_new("Rook", Black))
          [] i \in {57, 62} -> Some(Piece_new("Knight", Black))
          [] i \in {58, 61} -> Some(Piece_new("Bishop", Black))
          [] i = 59         -> Some(Piece_new("Queen", Black))
          [] i = 60         -> Some(Piece_new("King", Black))
          [] OTHER          -> None]

\* Board::generate_empty_graveyard: the inner maps have no King key
generate_empty_graveyard ==
    [c \in PieceColor |->
        [k \in {"Pawn", "Knight", "Bishop", "Rook", "Queen"} |-> 0]]

\* Board::new
Board_new ==
    [board |-> generate_default_board, current_turn |-> White,
     move_list |-> <<>>, graveyard |-> generate_empty_graveyard]

\* Board::get_board_index_from_loc (u8 arithmetic; the callers below only pass
\* coordinates with rank < 32, for which rank * 8 + file does not overflow)
get_board_index_from_loc(loc) == (loc.rank * ranks) + loc.file

\* Board::get_piece_at_location: Vec::get, None when the index is out of range
get_piece_at_location(self, loc) ==
    LET board_index == get_board_index_from_loc(loc)
    IN  IF board_index \in DOMAIN self.board THEN self.board[board_index] ELSE None

\* Whether the u8 arithmetic (loc.rank * self.ranks) + loc.file of
\* get_board_index_from_loc overflows
index_overflows(loc) ==
    loc.rank * ranks > 255 \/ (loc.rank * ranks) + loc.file > 255

\* Board::get_piece_at_location over every u8 coordinate: the outcomes a
\* build can produce.  Where the index overflows, a build with overflow
\* checks panics and one without them reads the wrapped index
lookup_outcomes(self, loc) ==
    IF index_overflows(loc)
    THEN LET board_index == (((loc.rank * ranks) % 256) + loc.file) % 256
         IN  {[panicked |-> TRUE, value |-> None],
              [panicked |-> FALSE,
               value |-> IF board_index \in DOMAIN self.board
                         THEN self.board[board_index] ELSE None]}
    ELSE {[panicked |-> FALSE, value |-> get_piece_at_location(self, loc)]}

\* Board::get_previous_move
get_previous_move(self) ==
    IF Len(self.move_list) = 0 THEN None
    ELSE Some(self.move_list[Len(self.move_list)])

----------------------------------------------------------------------------
(* Legality checker: game/moves/move_checker.rs *)

Ok(move_type, capturing) ==
    [ok |-> TRUE, move_type |-> move_type, capturing |-> capturing, err |-> "None"]
Err(e) ==
    [ok |-> FALSE, move_type |-> "None", capturing |-> FALSE, err |-> e]

\* is_diagonal_move as it would be on signed differences, without abs_diff
is_diagonal_move_signed(start, dest) ==
    dest.file - start.file = dest.rank - start.rank

is_diagonal_move(start, dest) ==
    abs_diff(dest.file, start.file) = abs_diff(dest.rank, start.rank)

\* is_cardinal_move as it would be with && in place of ||
is_cardinal_move_both(start, dest) ==
    dest.file = start.file /\ dest.rank = start.rank

is_cardinal_move(start, dest) ==
    dest.file = start.file \/ dest.rank = start.rank

\* is_knight_move as it would be without its second alternative
is_knight_move_wide(start, dest) ==
    abs_diff(dest.file, start.file) = 2 /\ abs_diff(dest.rank, start.rank) = 1

is_knight_move(start, dest) ==
    \/ abs_diff(dest.file, start.file) = 2 /\ abs_diff(dest.rank, start.rank) = 1
    \/ abs_diff(dest.file, start.file) = 1 /\ abs_diff(dest.rank, start.rank) = 2

\* The (required_start_rank, valid_destination_rank) pair of can_en_passant
en_passant_ranks(color) ==
    IF color = White THEN <<4, 5>> ELSE <<2, 1>>

can_en_passant(self, piece, start, dest) ==
    LET required_start_rank == en_passant_ranks(piece.color)[1]
        valid_destination_rank == en_passant_ranks(piece.color)[2]
        prev == get_previous_move(self)
    IN  IF /\ start.rank = required_start_rank
           /\ IsSome(prev)
           /\ Unwrap(prev).piece.piece_type = "Pawn"
           /\ abs_diff(Unwrap(prev).start_pos.rank, Unwrap(prev).end_pos.rank) = 2
           /\ dest.rank = valid_destination_rank
           /\ dest.file = Unwrap(prev).end_pos.file
        THEN Ok("EnPassant", TRUE)
        ELSE Err("PawnEnPassantNotValid")

\* The Pawn arm as it would be without the test of a capture's shape
pawn_move_capturing_ahead(self, piece, start, dest, capturing) ==
    LET max_diff == IF piece.has_moved THEN 1 ELSE 2
        direction == IF piece.color = White THEN 1 ELSE -1
        en_passant_result == can_en_passant(self, piece, start, dest)
        capturing2 == capturing \/ en_passant_result.ok
        move_type == IF en_passant_result.ok THEN "EnPassant" ELSE "Normal"
    IN  IF abs_diff(dest.rank, start.rank) > max_diff
        THEN Err("RankDifferenceGreater")
        ELSE IF as_i8(dest.rank) * direction <= as_i8(start.rank) * direction
        THEN Err("PawnMustMoveForward")
        ELSE IF capturing2
        THEN Ok(move_type, capturing2)
        ELSE IF start.file # dest.file
             THEN Err("PawnMustMoveForward")
             ELSE Ok(move_type, capturing2)

\* The Pawn arm as it would be if a two-rank advance over an occupied square
\* were refused
pawn_move_blocked(self, piece, start, dest, capturing) ==
    LET max_diff == IF piece.has_moved THEN 1 ELSE 2
        direction == IF piece.color = White THEN 1 ELSE -1
        en_passant_result == can_en_passant(self, piece, start, dest)
        capturing2 == capturing \/ en_passant_result.ok
        move_type == IF en_passant_result.ok THEN "EnPassant" ELSE "Normal"
        skipped == PieceLoc((start.rank + dest.rank) \div 2, start.file)
    IN  IF abs_diff(dest.rank, start.rank) > max_diff
        THEN Err("RankDifferenceGreater")
        ELSE IF as_i8(dest.rank) * direction <= as_i8(start.rank) * direction
        THEN Err("PawnMustMoveForward")
        ELSE IF /\ abs_diff(dest.rank, start.rank) = 2
                /\ IsSome(get_piece_at_location(self, skipped))
        THEN Err("PawnMustMoveForward")
        ELSE IF capturing2
        THEN IF abs_diff(dest.file, start.file) # 1 \/ abs_diff(dest.rank, start.rank) # 1
             THEN Err("PawnMustCaptureDiagonal")
             ELSE Ok(move_type, capturing2)
        ELSE IF start.file # dest.file
             THEN Err("PawnMustMoveForward")
             ELSE Ok(move_type, capturing2)

\* The Pawn arm of is_valid_move; capturing is the flag set by the occupant of dest
pawn_move(self, piece, start, dest, capturing) ==
    LET max_diff == IF piece.has_moved THEN 1 ELSE 2
        direction == IF piece.color = White THEN 1 ELSE -1
        en_passant_result == can_en_passant(self, piece, start, dest)
        capturing2 == capturing \/ en_passant_result.ok
        move_type == IF en_passant_result.ok THEN "EnPassant" ELSE "Normal"
    IN  IF abs_diff(dest.rank, start.rank) > max_diff
        THEN Err("RankDifferenceGreater")
        ELSE IF as_i8(dest.rank) * direction <= as_i8(start.rank) * direction
        THEN Err("PawnMustMoveForward")
        ELSE IF capturing2
        THEN IF abs_diff(dest.file, start.file) # 1 \/ abs_diff(dest.rank, start.rank) # 1
             THEN Err("PawnMustCaptureDiagonal")
             ELSE Ok(move_type, capturing2)
        ELSE IF start.file # dest.file
             THEN Err("PawnMustMoveForward")
             ELSE Ok(move_type, capturing2)

\* The King arm as it would be with the two corners taken for each other
king_move_far_corner(self, piece, start, dest, capturing) ==
    IF dest.rank = start.rank /\ abs_diff(dest.file, start.file) = 2
    THEN IF piece.has_moved
         THEN Err("CannotCastleWithMovedKing")
         ELSE LET castling_rook ==
                      IF dest.file < start.file
                      THEN get_piece_at_location(self, PieceLoc(dest.rank, 7))
                      ELSE get_piece_at_location(self, PieceLoc(dest.rank, 0))
              IN  IF IsSome(castling_rook)
                  THEN IF ~Unwrap(castling_rook).has_moved
                       THEN Ok("Castling", capturing)
                       ELSE Err("CannotCastleWithMovedRook")
                  ELSE Err("NoRookToCastleWith")
    ELSE IF abs_diff(dest.file, start.file) > 1
    THEN Err("FileDifferenceGreater")
    ELSE IF abs_diff(dest.rank, start.rank) > 1
    THEN Err("RankDifferenceGreater")
    ELSE Ok("Normal", capturing)

\* The King arm as it would be with the rank distance tested before the file
\* distance
king_move_rank_first(self, piece, start, dest, capturing) ==
    IF dest.rank = start.rank /\ abs_diff(dest.file, start.file) = 2
    THEN IF piece.has_moved
         THEN Err("CannotCastleWithMovedKing")
         ELSE LET castling_rook ==
                      IF dest.file < start.file
                      THEN get_piece_at_location(self, PieceLoc(dest.rank, 0))
                      ELSE get_piece_at_location(self, PieceLoc(dest.rank, 7))
              IN  IF IsSome(castling_rook)
                  THEN IF ~Unwrap(castling_rook).has_moved
                       THEN Ok("Castling", capturing)
                       ELSE Err("CannotCastleWithMovedRook")
                  ELSE Err("NoRookToCastleWith")
    ELSE IF abs_diff(dest.rank, start.rank) > 1
    THEN Err("RankDifferenceGreater")
    ELSE IF abs_diff(dest.file, start.file) > 1
    THEN Err("FileDifferenceGreater")
    ELSE Ok("Normal", capturing)

\* The King arm of is_valid_move
king_move(self, piece, start, dest, capturing) ==
    IF dest.rank = start.rank /\ abs_diff(dest.file, start.file) = 2
    THEN IF piece.has_moved
         THEN Err("CannotCastleWithMovedKing")
         ELSE LET castling_rook ==
                      IF dest.file < start.file
                      THEN get_piece_at_location(self, PieceLoc(dest.rank, 0))
                      ELSE get_piece_at_location(self, PieceLoc(dest.rank, 7))
              IN  IF IsSome(castling_rook)
                  THEN IF ~Unwrap(castling_rook).has_moved
                       THEN Ok("Castling", capturing)
                       ELSE Err("CannotCastleWithMovedRook")
                  ELSE Err("NoRookToCastleWith")
    ELSE IF abs_diff(dest.file, start.file) > 1
    THEN Err("FileDifferenceGreater")
    ELSE IF abs_diff(dest.rank, start.rank) > 1
    THEN Err("RankDifferenceGreater")
    ELSE Ok("Normal", capturing)

\* The match as it would be with the Queen arm testing only is_cardinal_move
piece_rule_queen_cardinal(self, piece, start, dest, capturing) ==
    CASE piece.piece_type = "Pawn" -> pawn_move(self, piece, start, dest, capturing)
      [] piece.piece_type = "King" -> king_move(self, piece, start, dest, capturing)
      [] piece.piece_type = "Rook" ->
            IF is_cardinal_move(start, dest)
            THEN Ok("Normal", capturing) ELSE Err("RookMustMoveCardinal")
      [] piece.piece_type = "Bishop" ->
            IF is_diagonal_move(start, dest)
            THEN Ok("Normal", capturing) ELSE Err("BishopMustMoveDiagonal")
      [] piece.piece_type = "Queen" ->
            IF is_cardinal_move(start, dest)
            THEN Ok("Normal", capturing) ELSE Err("MoveNotStraightLine")
      [] piece.piece_type = "Knight" ->
            IF is_knight_move(start, dest)
            THEN Ok("Normal", capturing) ELSE Err("KnightInvalidMove")

\* The match on piece.piece_type that ends is_valid_move
piece_rule(self, piece, start, dest, capturing) ==
    CASE piece.piece_type = "Pawn" -> pawn_move(self, piece, start, dest, capturing)
      [] piece.piece_type = "King" -> king_move(self, piece, start, dest, capturing)
      [] piece.piece_type = "Rook" ->
            IF is_cardinal_move(start, dest)
            THEN Ok("Normal", capturing) ELSE Err("RookMustMoveCardinal")
      [] piece.piece_type = "Bishop" ->
            IF is_diagonal_move(start, dest)
            THEN Ok("Normal", capturing) ELSE Err("BishopMustMoveDiagonal")
      [] piece.piece_type = "Queen" ->
            IF is_diagonal_move(start, dest) \/ is_cardinal_move(start, dest)
            THEN Ok("Normal", capturing) ELSE Err("MoveNotStraightLine")
      [] piece.piece_type = "Knight" ->
            IF is_knight_move(start, dest)
            THEN Ok("Normal", capturing) ELSE Err("KnightInvalidMove")

\* is_valid_move as it would be with the bounds check ahead of the turn check
is_valid_move_bounds_first(self, piece, start, dest) ==
    IF dest.file >= files \/ dest.rank >= ranks
    THEN Err("MoveOutOfBounds")
    ELSE IF self.current_turn # piece.color
    THEN Err("WrongColorPiece")
    ELSE IF dest.rank = start.rank /\ dest.file = start.file
    THEN Err("NoPositionChange")
    ELSE LET existing_piece == get_piece_at_location(self, dest)
         IN  IF IsSome(existing_piece) /\ Unwrap(existing_piece).color = piece.color
             THEN Err("OccupiedBySameColor")
             ELSE piece_rule(self, piece, start, dest, IsSome(existing_piece))

\* is_valid_move: the universal checks, then the rule of the piece's kind
is_valid_move(self, piece, start, dest) ==
    IF self.current_turn # piece.color
    THEN Err("WrongColorPiece")
    ELSE IF dest.file >= files \/ dest.rank >= ranks
    THEN Err("MoveOutOfBounds")
    ELSE IF dest.rank = start.rank /\ dest.file = start.file
    THEN Err("NoPositionChange")
    ELSE LET existing_piece == get_piece_at_location(self, dest)
         IN  IF IsSome(existing_piece) /\ Unwrap(existing_piece).color = piece.color
             THEN Err("OccupiedBySameColor")
             ELSE piece_rule(self, piece, start, dest, IsSome(existing_piece))

\* Move::new as it would be without the call of the checker
Move_new_unchecked(self, piece, start, dest) ==
    [ok |-> TRUE,
     move |-> Some([piece |-> piece, start_pos |-> start, end_pos |-> dest,
                    move_type |-> "Normal", capturing |-> FALSE]),
     err |-> "None"]

\* Move::new (game/moves.rs): Ok(Move) carrying the checker's classification,
\* or the checker's error
Move_new(self, piece, start, dest) ==
    LET move_result == is_valid_move(self, piece, start, dest)
    IN  IF move_result.ok
        THEN [ok |-> TRUE,
              move |-> Some([piece |-> piece, start_pos |-> start, end_pos |-> dest,
                             move_type |-> move_result.move_type,
                             capturing |-> move_result.capturing]),
              err |-> "None"]
        ELSE [ok |-> FALSE, move |-> None, err |-> move_result.err]

----------------------------------------------------------------------------
(* Move applier: game/board.rs *)

\* A Move as Board::record_move stores it
Move(piece, start, dest) == [piece |-> piece, start_pos |-> start, end_pos |-> dest]

\* The CaptureResult handed to handle_move_piece_to_graveyard for a verdict of
\* the checker: which capture, if any, the accepted move makes
capture_result(verdict) ==
    IF ~verdict.capturing THEN "None"
    ELSE IF verdict.move_type = "EnPassant" THEN "EnPassant"
    ELSE "Normal"

\* Board::update
update(self, new_board, new_move_list, new_graveyard) ==
    [board |-> new_board, move_list |-> new_move_list,
     graveyard |-> new_graveyard, current_turn |-> flip(self.current_turn)]

\* record_move as it would be if it started from an empty Vec
record_move_fresh(self, new_move) ==
    <<[piece |-> new_move.piece, start_pos |-> new_move.start_pos,
       end_pos |-> new_move.end_pos]>>

\* record_move as it would be if it pushed a clone of the Move it is given
record_move_cloning(self, new_move) ==
    Append(self.move_list, new_move)

\* Board::record_move
record_move(self, new_move) ==
    Append(self.move_list,
           [piece |-> new_move.piece, start_pos |-> new_move.start_pos,
            end_pos |-> new_move.end_pos])

\* Board::get_captured_piece_idx: Option<usize>
get_captured_piece_idx(self, result, m) ==
    CASE result = "Normal" -> Some(get_board_index_from_loc(m.end_pos))
      [] result = "EnPassant" ->
            IF m.piece.color = White
            THEN Some(get_board_index_from_loc(PieceLoc(m.end_pos.rank - 1, m.end_pos.file)))
            ELSE Some(get_board_index_from_loc(PieceLoc(m.end_pos.rank + 1, m.end_pos.file)))
      [] OTHER -> None

\* color_grave.entry(kind).or_insert(1) followed by *piece_grave += 1
bury(color_grave, kind) ==
    LET piece_grave == IF kind \in DOMAIN color_grave THEN color_grave[kind] ELSE 1
    IN  [k \in DOMAIN color_grave \cup {kind} |->
            IF k = kind THEN piece_grave + 1 ELSE color_grave[k]]

\* handle_move_piece_to_graveyard as it would be if new_graveyard started
\* from generate_empty_graveyard instead of a clone of self.graveyard
handle_move_piece_to_graveyard_fresh(self, capture_type, m) ==
    LET idx == get_captured_piece_idx(self, capture_type, m)
        kept == [panicked |-> FALSE, graveyard |-> self.graveyard, board |-> self.board]
        dead == [panicked |-> TRUE, graveyard |-> self.graveyard, board |-> self.board]
    IN  IF capture_type \in {"Normal", "EnPassant"} /\ IsSome(idx)
        THEN IF Unwrap(idx) \notin DOMAIN self.board
             THEN dead
             ELSE IF IsSome(self.board[Unwrap(idx)])
             THEN LET captured_piece == Unwrap(self.board[Unwrap(idx)])
                  IN  [panicked |-> FALSE,
                       graveyard |->
                           [generate_empty_graveyard EXCEPT ![captured_piece.color] =
                               bury(@, captured_piece.piece_type)],
                       board |-> [self.board EXCEPT ![Unwrap(idx)] = None]]
             ELSE dead
        ELSE kept

\* Board::handle_move_piece_to_graveyard.  Returns whether it panicked, the
\* graveyard it returns and self.board as it leaves it (the captured square
\* is cleared in self.board, not in the board handle_moving_piece built).
handle_move_piece_to_graveyard(self, capture_type, m) ==
    LET idx == get_captured_piece_idx(self, capture_type, m)
        kept == [panicked |-> FALSE, graveyard |-> self.graveyard, board |-> self.board]
        dead == [panicked |-> TRUE, graveyard |-> self.graveyard, board |-> self.board]
    IN  IF capture_type \in {"Normal", "EnPassant"} /\ IsSome(idx)
        THEN IF Unwrap(idx) \notin DOMAIN self.board
             THEN dead      \* index out of bounds
             ELSE IF IsSome(self.board[Unwrap(idx)])
             THEN LET captured_piece == Unwrap(self.board[Unwrap(idx)])
                  IN  [panicked |-> FALSE,
                       graveyard |->
                           [self.graveyard EXCEPT ![captured_piece.color] =
                               bury(@, captured_piece.piece_type)],
                       board |-> [self.board EXCEPT ![Unwrap(idx)] = None]]
             ELSE dead      \* "Somehow captured piece that didn't exist."
        ELSE kept

\* handle_moving_piece as it would be without new_board[start_board_idx] = None
handle_moving_piece_copying(self, m) ==
    LET selected_piece == [m.piece EXCEPT !.has_moved = TRUE]
        end_board_idx == get_board_index_from_loc(m.end_pos)
    IN  IF end_board_idx \notin DOMAIN self.board
        THEN None
        ELSE Some([self.board EXCEPT ![end_board_idx] = Some(selected_piece)])

\* handle_moving_piece as it would be if a king's two-file shift also brought
\* the corner piece to the square the king passes
handle_moving_piece_with_rook(self, m) ==
    LET selected_piece == [m.piece EXCEPT !.has_moved = TRUE]
        start_board_idx == get_board_index_from_loc(m.start_pos)
        end_board_idx == get_board_index_from_loc(m.end_pos)
        corner_idx == get_board_index_from_loc(
                          PieceLoc(m.end_pos.rank,
                                   IF m.end_pos.file > m.start_pos.file THEN 7 ELSE 0))
        passed_idx == get_board_index_from_loc(
                          PieceLoc(m.end_pos.rank,
                                   (m.start_pos.file + m.end_pos.file) \div 2))
    IN  IF end_board_idx \notin DOMAIN self.board \/ start_board_idx \notin DOMAIN self.board
        THEN None
        ELSE IF /\ m.piece.piece_type = "King"
                /\ m.start_pos.rank = m.end_pos.rank
                /\ abs_diff(m.end_pos.file, m.start_pos.file) = 2
        THEN Some([self.board EXCEPT ![end_board_idx] = Some(selected_piece),
                                     ![start_board_idx] = None,
                                     ![passed_idx] = self.board[corner_idx],
                                     ![corner_idx] = None])
        ELSE Some([self.board EXCEPT ![end_board_idx] = Some(selected_piece),
                                     ![start_board_idx] = None])

\* handle_moving_piece as it would be without selected_piece.has_moved = true
handle_moving_piece_unflagged(self, m) ==
    LET selected_piece == m.piece
        start_board_idx == get_board_index_from_loc(m.start_pos)
        end_board_idx == get_board_index_from_loc(m.end_pos)
    IN  IF end_board_idx \notin DOMAIN self.board \/ start_board_idx \notin DOMAIN self.board
        THEN None
        ELSE Some([self.board EXCEPT ![end_board_idx] = Some(selected_piece),
                                     ![start_board_idx] = None])

\* Board::handle_moving_piece: Some(new_board), or None when an index panics
handle_moving_piece(self, m) ==
    LET selected_piece == [m.piece EXCEPT !.has_moved = TRUE]
        start_board_idx == get_board_index_from_loc(m.start_pos)
        end_board_idx == get_board_index_from_loc(m.end_pos)
    IN  IF end_board_idx \notin DOMAIN self.board \/ start_board_idx \notin DOMAIN self.board
        THEN None
        ELSE Some([self.board EXCEPT ![end_board_idx] = Some(selected_piece),
                                     ![start_board_idx] = None])

\* move_piece as it would be if the Err arm applied the move as the Ok arm does
move_piece_unchecked(self, new_move) ==
    LET verdict == is_valid_move(self, new_move.piece, new_move.start_pos, new_move.end_pos)
        new_board == handle_moving_piece(self, new_move)
    IN  IF IsSome(new_board)
        THEN [verdict |-> verdict, panicked |-> FALSE,
              next |-> update(self, Unwrap(new_board), record_move(self, new_move),
                              self.graveyard)]
        ELSE [verdict |-> verdict, panicked |-> FALSE, next |-> self]

\* Board::move_piece: the verdict of the checker, whether the call panicked,
\* and the Board it returns
move_piece(self, new_move) ==
    LET verdict == is_valid_move(self, new_move.piece, new_move.start_pos, new_move.end_pos)
    IN  IF verdict.ok
        THEN LET new_move_list == record_move(self, new_move)
                 new_board == handle_moving_piece(self, new_move)
                 buried == handle_move_piece_to_graveyard(
                               self, capture_result(verdict), new_move)
             IN  IF ~IsSome(new_board) \/ buried.panicked
                 THEN [verdict |-> verdict, panicked |-> TRUE, next |-> self]
                 ELSE [verdict |-> verdict, panicked |-> FALSE,
                       next |-> update([self EXCEPT !.board = buried.board],
                                       Unwrap(new_board), new_move_list,
                                       buried.graveyard)]
        ELSE [verdict |-> verdict, panicked |-> FALSE, next |-> self]

----------------------------------------------------------------------------
(* The game loop: a caller picks an occupied square and a target, as        *)
(* cli::prompt_make_move does, and hands the move to Board::move_piece      *)

\* The (start, dest) pairs the caller picks from under Spec: the d- and
\* e-pawns of both sides (two-step, single step, diagonal capture, en
\* passant), the white queen's raid d1-d8-e8, the queen on d8 stepping to d6,
\* a king-side castling, and picks the checker turns down
CallerMoves ==
    { <<PieceLoc(1, 4), PieceLoc(3, 4)>>,    \* e2-e4
      <<PieceLoc(3, 4), PieceLoc(4, 4)>>,    \* e4-e5
      <<PieceLoc(4, 4), PieceLoc(5, 3)>>,    \* e5xd6
      <<PieceLoc(3, 4), PieceLoc(4, 3)>>,    \* e4xd5
      <<PieceLoc(0, 3), PieceLoc(7, 3)>>,    \* Qd1xd8
      <<PieceLoc(7, 3), PieceLoc(7, 4)>>,    \* Qd8xe8
      <<PieceLoc(7, 3), PieceLoc(5, 3)>>,    \* Qd8-d6
      <<PieceLoc(0, 6), PieceLoc(2, 5)>>,    \* Ng1-f3
      <<PieceLoc(0, 4), PieceLoc(0, 6)>>,    \* Ke1-g1
      <<PieceLoc(6, 3), PieceLoc(4, 3)>>,    \* d7-d5
      <<PieceLoc(4, 3), PieceLoc(3, 3)>>,    \* d5-d4
      <<PieceLoc(3, 3), PieceLoc(2, 4)>>,    \* d4xe3
      <<PieceLoc(4, 3), PieceLoc(3, 4)>>,    \* d5xe4
      <<PieceLoc(6, 4), PieceLoc(5, 4)>>,    \* e7-e6
      <<PieceLoc(7, 4), PieceLoc(7, 3)>>,    \* Ke8xd8
      <<PieceLoc(0, 4), PieceLoc(0, 4)>>,    \* Ke1 stays
      <<PieceLoc(0, 4), PieceLoc(0, 3)>>,    \* Ke1-d1
      <<PieceLoc(1, 3), PieceLoc(8, 3)>> }   \* d2 off the board

\* The pairs the caller picks from under SpecPawnRace: the white a-, d- and
\* e-pawns and the black d-pawn, which runs down to the third rank
PawnRaceMoves ==
    { <<PieceLoc(1, 0), PieceLoc(2, 0)>>,    \* a2-a3
      <<PieceLoc(2, 0), PieceLoc(3, 0)>>,    \* a3-a4
      <<PieceLoc(3, 0), PieceLoc(4, 0)>>,    \* a4-a5
      <<PieceLoc(1, 4), PieceLoc(3, 4)>>,    \* e2-e4
      <<PieceLoc(1, 4), PieceLoc(2, 4)>>,    \* e2-e3
      <<PieceLoc(1, 4), PieceLoc(2, 3)>>,    \* e2xd3
      <<PieceLoc(6, 3), PieceLoc(4, 3)>>,    \* d7-d5
      <<PieceLoc(4, 3), PieceLoc(3, 3)>>,    \* d5-d4
      <<PieceLoc(3, 3), PieceLoc(2, 3)>>,    \* d4-d3
      <<PieceLoc(3, 3), PieceLoc(2, 4)>>,    \* d4xe3
      <<PieceLoc(2, 3), PieceLoc(1, 4)>>,    \* d3xe2
      <<PieceLoc(1, 3), PieceLoc(3, 3)>>,    \* d2-d4
      <<PieceLoc(2, 3), PieceLoc(1, 3)>>,    \* d3-d2
      <<PieceLoc(6, 7), PieceLoc(5, 7)>> }   \* h7-h6

\* The pairs the caller picks from under SpecBackRank: the white king-side
\* pieces (knight out, rook up the h-file and back, king two files over and
\* back, knight on to h4), the queen's bishop to h6, the white queen's raid
\* d1-d8-c8-a8, and for Black the h-pawn and the king's two-file shift towards
\* the a-file
BackRankMoves ==
    { <<PieceLoc(0, 6), PieceLoc(2, 5)>>,    \* Ng1-f3
      <<PieceLoc(0, 4), PieceLoc(0, 6)>>,    \* Ke1-g1
      <<PieceLoc(0, 6), PieceLoc(0, 4)>>,    \* Kg1-e1
      <<PieceLoc(2, 5), PieceLoc(3, 7)>>,    \* Nf3-h4
      <<PieceLoc(0, 7), PieceLoc(2, 7)>>,    \* Rh1-h3
      <<PieceLoc(2, 7), PieceLoc(0, 7)>>,    \* Rh3-h1
      <<PieceLoc(0, 2), PieceLoc(5, 7)>>,    \* Bc1-h6
      <<PieceLoc(0, 3), PieceLoc(7, 3)>>,    \* Qd1xd8
      <<PieceLoc(7, 3), PieceLoc(7, 2)>>,    \* Qd8xc8
      <<PieceLoc(7, 2), PieceLoc(7, 0)>>,    \* Qc8xa8
      <<PieceLoc(6, 7), PieceLoc(5, 7)>>,    \* h7-h6
      <<PieceLoc(5, 7), PieceLoc(4, 7)>>,    \* h6-h5
      <<PieceLoc(4, 7), PieceLoc(3, 7)>>,    \* h5-h4
      <<PieceLoc(7, 4), PieceLoc(7, 2)>> }   \* Ke8-c8

Init ==
    /\ board = Board_new.board
    /\ current_turn = Board_new.current_turn
    /\ move_list = Board_new.move_list
    /\ graveyard = Board_new.graveyard
    /\ lastMove = None
    /\ lastResult = None
    /\ status = "running"

\* One call board = board.move_piece(new_move)
MovePiece(new_move) ==
    /\ status = "running"
    /\ LET out == move_piece(Self, new_move)
       IN  /\ lastMove' = Some(new_move)
           /\ lastResult' = Some(out.verdict)
           /\ status' = IF out.panicked THEN "panicked" ELSE "running"
           /\ board' = out.next.board
           /\ current_turn' = out.next.current_turn
           /\ move_list' = out.next.move_list
           /\ graveyard' = out.next.graveyard

\* The caller's pick: the piece found on the start square goes into the Move
Pick(cm) ==
    /\ IsSome(get_piece_at_location(Self, cm[1]))
    /\ MovePiece(Move(Unwrap(get_piece_at_location(Self, cm[1])), cm[1], cm[2]))

Next ==
    /\ Len(move_list) < MaxMoves
    /\ \E cm \in CallerMoves : Pick(cm)

NextPawnRace ==
    /\ Len(move_list) < MaxMovesPawnRace
    /\ \E cm \in PawnRaceMoves : Pick(cm)

NextBackRank ==
    /\ Len(move_list) < MaxMovesBackRank
    /\ \E cm \in BackRankMoves : Pick(cm)

\* The Moves a caller builds by hand under SpecForged (the fields of Move are
\* public, and the checker's tests pass pieces that are not on the board):
\* <<piece, start, dest>> with a start square that is empty, holds another
\* piece, or lies off the board.  Coordinates stay below 32, so that
\* rank * 8 + file does not overflow a u8
ForgedMoves ==
    { <<Piece_new("Pawn", White), PieceLoc(2, 0), PieceLoc(3, 0)>>,    \* from empty a3
      <<Piece_new("Pawn", Black), PieceLoc(5, 0), PieceLoc(4, 0)>>,    \* from empty a6
      <<Piece_new("Queen", White), PieceLoc(1, 4), PieceLoc(3, 4)>>,   \* a queen for the e2 pawn
      <<Piece_new("Knight", Black), PieceLoc(4, 4), PieceLoc(2, 3)>>,  \* from empty e5
      <<Piece_new("Rook", White), PieceLoc(8, 0), PieceLoc(7, 0)>>,    \* from rank 8
      <<Piece_new("Bishop", Black), PieceLoc(3, 8), PieceLoc(2, 7)>>,  \* from file 8
      <<Piece_new("Rook", White), PieceLoc(8, 0), PieceLoc(8, 1)>> }   \* to rank 8

\* The honest picks mixed in under SpecForged
ForgedPicks ==
    { <<PieceLoc(1, 4), PieceLoc(3, 4)>>,    \* e2-e4
      <<PieceLoc(6, 3), PieceLoc(4, 3)>>,    \* d7-d5
      <<PieceLoc(3, 4), PieceLoc(4, 3)>>,    \* e4xd5
      <<PieceLoc(7, 3), PieceLoc(4, 3)>> }   \* Qd8xd5

\* A caller hands move_piece a Move it built by hand
Forge(fm) == MovePiece(Move(fm[1], fm[2], fm[3]))

NextForged ==
    /\ Len(move_list) < MaxMovesForged
    /\ \/ \E fm \in ForgedMoves : Forge(fm)
       \/ \E cm \in ForgedPicks : Pick(cm)

\* The pairs the caller picks from under SpecSkipped: White's a-pawn up the
\* board and the d-pawn's two-rank advance, Black's queen from d8 to d3 and
\* the e-pawn down to e3 and on to d2
SkippedMoves ==
    { <<PieceLoc(1, 0), PieceLoc(2, 0)>>,    \* a2-a3
      <<PieceLoc(2, 0), PieceLoc(3, 0)>>,    \* a3-a4
      <<PieceLoc(3, 0), PieceLoc(4, 0)>>,    \* a4-a5
      <<PieceLoc(4, 0), PieceLoc(5, 0)>>,    \* a5-a6
      <<PieceLoc(1, 3), PieceLoc(3, 3)>>,    \* d2-d4
      <<PieceLoc(7, 3), PieceLoc(2, 3)>>,    \* Qd8-d3
      <<PieceLoc(6, 4), PieceLoc(4, 4)>>,    \* e7-e5
      <<PieceLoc(4, 4), PieceLoc(3, 4)>>,    \* e5-e4
      <<PieceLoc(3, 4), PieceLoc(2, 4)>>,    \* e4-e3
      <<PieceLoc(2, 4), PieceLoc(1, 3)>> }   \* e3xd2

NextSkipped ==
    /\ Len(move_list) < MaxMovesSkipped
    /\ \E cm \in SkippedMoves : Pick(cm)

Spec == Init /\ [][Next]_vars

SpecSkipped == Init /\ [][NextSkipped]_vars

SpecForged == Init /\ [][NextForged]_vars

SpecPawnRace == Init /\ [][NextPawnRace]_vars

SpecBackRank == Init /\ [][NextBackRank]_vars

----------------------------------------------------------------------------
(* Vocabulary of the properties *)

\* The verdict of the latest call, and the Move it was given
Verdict == Unwrap(lastResult)
Given == Unwrap(lastMove)

\* Number of occupied squares of a board
Occupied(b) == Cardinality({i \in DOMAIN b : IsSome(b[i])})

\* A capture count as the display reads it: a missing key counts 0
Buried(g, color, kind) == IF kind \in DOMAIN g[color] THEN g[color][kind] ELSE 0

\* The step is a call of move_piece that returned (did not panic)
Returned == IsSome(lastResult') /\ status' = "running"

\* The squares and targets the checker is probed with in every reachable
\* position: the d- and e-files, and three targets off the board
ProbeSquares == {PieceLoc(r, f) : r \in 0..7, f \in {3, 4}}
ProbeTargets == ProbeSquares \cup {PieceLoc(8, 3), PieceLoc(3, 8), PieceLoc(9, 9)}

\* The pieces a caller may hold for a square: the occupant as it stands on
\* the board, or a copy of it taken before it moved (as the tests pass)
ProbePieces(start) ==
    LET o == get_piece_at_location(Self, start)
    IN  IF IsSome(o)
        THEN {Unwrap(o), [Unwrap(o) EXCEPT !.has_moved = FALSE]}
        ELSE {}

----------------------------------------------------------------------------
(* C1 - C10 *)

\* C1: a move the checker rejects leaves the position as it was: every board
\* square, current_turn, move_list and graveyard of the returned Board equal
\* those of the Board move_piece was called on
C1_RejectedMoveLeavesPosition ==
    [][(IsSome(lastResult') /\ ~Unwrap(lastResult').ok) =>
          /\ board' = board
          /\ current_turn' = current_turn
          /\ move_list' = move_list
          /\ graveyard' = graveyard
          /\ status' = "running"]_vars

\* C1 witness: a move was rejected after moves had been applied
C1_Witness ==
    /\ IsSome(lastResult) /\ ~Verdict.ok
    /\ Len(move_list) >= 2

\* C2: current_turn is White iff the number of applied moves (the length of
\* move_list) is even, whatever calls, accepted or rejected, were made
C2_TurnParity ==
    (current_turn = White) <=> (Len(move_list) % 2 = 0)

\* C2 witness: two moves were applied and the latest call was rejected
C2_Witness ==
    /\ Len(move_list) = 2 /\ current_turn = White
    /\ IsSome(lastResult) /\ ~Verdict.ok

\* C3: move_list is append-only: a call that accepts a move and returns
\* appends exactly the Move it was given (piece, start, dest) and keeps the
\* older entries in order; any other call leaves move_list unchanged
C3_HistoryAppendOnly ==
    [][IF Returned /\ Unwrap(lastResult').ok
       THEN move_list' = Append(move_list,
                [piece |-> Unwrap(lastMove').piece,
                 start_pos |-> Unwrap(lastMove').start_pos,
                 end_pos |-> Unwrap(lastMove').end_pos])
       ELSE move_list' = move_list]_vars

\* C3 witness: a third move was appended to a history of two
C3_Witness ==
    /\ Len(move_list) = 3
    /\ IsSome(lastResult) /\ Verdict.ok
    /\ move_list[3] = Given

\* The number of pieces of one colour on a board
OccupiedBy(b, color) ==
    Cardinality({i \in DOMAIN b : IsSome(b[i]) /\ Unwrap(b[i]).color = color})

\* The square of the piece a capturing move takes: dest, or for an en passant
\* move the square beside the mover's start on dest's file
CapturedSquare(verdict, m) ==
    IF verdict.move_type = "EnPassant"
    THEN PieceLoc(m.start_pos.rank, m.end_pos.file)
    ELSE m.end_pos

\* C4: a move accepted as capturing leaves exactly one occupied square fewer,
\* the piece gone is the opponent's, and after an en passant capture the
\* square of the passed pawn is empty
C4_CaptureRemovesOnePiece ==
    [][(Returned /\ Unwrap(lastResult').ok /\ Unwrap(lastResult').capturing) =>
          LET m == Unwrap(lastMove')
              mover == m.piece.color
          IN  /\ Occupied(board') = Occupied(board) - 1
              /\ OccupiedBy(board', mover) = OccupiedBy(board, mover)
              /\ OccupiedBy(board', flip(mover)) = OccupiedBy(board, flip(mover)) - 1
              /\ Unwrap(lastResult').move_type = "EnPassant" =>
                    board'[get_board_index_from_loc(
                               CapturedSquare(Unwrap(lastResult'), m))] = None]_vars

\* C5: a move accepted as capturing raises the capture count of the captured
\* piece's (colour, kind) by exactly 1, a King's included, and no other count
C5_CaptureTalliesOne ==
    [][(Returned /\ Unwrap(lastResult').ok /\ Unwrap(lastResult').capturing) =>
          LET m == Unwrap(lastMove')
              captured == Unwrap(get_piece_at_location(
                                     Self, CapturedSquare(Unwrap(lastResult'), m)))
          IN  \A c \in PieceColor, k \in PieceType :
                 Buried(graveyard', c, k) =
                    Buried(graveyard, c, k)
                    + (IF c = captured.color /\ k = captured.piece_type THEN 1 ELSE 0)]_vars

UniversalErrors ==
    {"WrongColorPiece", "MoveOutOfBounds", "NoPositionChange", "OccupiedBySameColor"}

C9_EnPassantOnlyAfterTwoStepBeside ==
    \A start \in ProbeSquares, dest \in ProbeSquares :
        \A piece \in ProbePieces(start) :
            (/\ piece.piece_type = "Pawn"
             /\ abs_diff(dest.rank, start.rank) = 1
             /\ abs_diff(dest.file, start.file) = 1
             /\ ~IsSome(get_piece_at_location(Self, dest))
             /\ is_valid_move(Self, piece, start, dest).ok)
            => /\ is_valid_move(Self, piece, start, dest) = Ok("EnPassant", TRUE)
               /\ move_list # <<>>
               /\ LET last == move_list[Len(move_list)]
                  IN  /\ last.piece.piece_type = "Pawn"
                      /\ last.piece.color = flip(piece.color)
                      /\ abs_diff(last.start_pos.rank, last.end_pos.rank) = 2
                      /\ last.end_pos.file = dest.file
                      /\ last.end_pos.rank = start.rank

\* C10: when a white pawn has just advanced from rank 1 to rank 3 and a black
\* pawn stands on rank 3 on an adjacent file, the black pawn's diagonal move
\* to rank 2 on the white pawn's file is accepted as EnPassant, capturing
C10_BlackEnPassantAccepted ==
    \A start \in ProbeSquares :
        LET mover == get_piece_at_location(Self, start)
            prev == get_previous_move(Self)
        IN  (/\ current_turn = Black
             /\ IsSome(prev)
             /\ Unwrap(prev).piece.piece_type = "Pawn"
             /\ Unwrap(prev).piece.color = White
             /\ Unwrap(prev).start_pos.rank = 1
             /\ Unwrap(prev).end_pos.rank = 3
             /\ IsSome(mover)
             /\ Unwrap(mover).piece_type = "Pawn"
             /\ Unwrap(mover).color = Black
             /\ start.rank = 3
             /\ abs_diff(start.file, Unwrap(prev).end_pos.file) = 1)
            => is_valid_move(Self, Unwrap(mover), start,
                             PieceLoc(2, Unwrap(prev).end_pos.file))
                  = Ok("EnPassant", TRUE)

----------------------------------------------------------------------------
(* C11 - C20 *)

\* +1 for White, -1 for Black: the way a pawn of the colour advances
Forward(color) == IF color = White THEN 1 ELSE -1

\* The en passant conditions for a pawn standing on start that moves to dest:
\* the latest entry of move_list is an opposing pawn's two-rank advance that
\* ended beside start on dest's file
EnPassantConditions(piece, start, dest) ==
    /\ move_list # <<>>
    /\ LET last == move_list[Len(move_list)]
       IN  /\ last.piece.piece_type = "Pawn"
           /\ last.piece.color = flip(piece.color)
           /\ abs_diff(last.start_pos.rank, last.end_pos.rank) = 2
           /\ last.end_pos = PieceLoc(start.rank, dest.file)

\* C11: a pawn's one-rank forward diagonal move to an empty square, when the
\* en passant conditions are not met, is answered PawnEnPassantNotValid
C11_FailedEnPassantError ==
    \A start \in ProbeSquares, dest \in ProbeSquares :
        \A piece \in ProbePieces(start) :
            (/\ piece.piece_type = "Pawn"
             /\ piece.color = current_turn
             /\ dest.rank = start.rank + Forward(piece.color)
             /\ abs_diff(dest.file, start.file) = 1
             /\ ~IsSome(get_piece_at_location(Self, dest))
             /\ ~EnPassantConditions(piece, start, dest))
            => is_valid_move(Self, piece, start, dest) = Err("PawnEnPassantNotValid")

\* Every square of the board
AllSquares == {PieceLoc(r, f) : r \in 0..7, f \in 0..7}

\* The pieces of one kind the side to move may pick up from a square
ProbeOf(kind, start) ==
    {p \in ProbePieces(start) : p.piece_type = kind /\ p.color = current_turn}

\* The targets of a same-rank shift of exactly two files
TwoFileShifts(start) ==
    {d \in AllSquares : d.rank = start.rank /\ abs_diff(d.file, start.file) = 2}

\* The corner square a castling king heads for
Corner(start, dest) ==
    PieceLoc(start.rank, IF dest.file < start.file THEN 0 ELSE 7)

\* The move passes the universal preconditions
PassesUniversal(piece, start, dest) ==
    /\ piece.color = current_turn
    /\ dest \in AllSquares
    /\ dest # start
    /\ LET occupant == get_piece_at_location(Self, dest)
       IN  ~(IsSome(occupant) /\ Unwrap(occupant).color = piece.color)

Between(a, b) ==
    {d \in AllSquares :
        /\ d.rank = a.rank
        /\ \/ a.file < d.file /\ d.file < b.file
           \/ b.file < d.file /\ d.file < a.file}

\* C13: when an unmoved king shifts two files towards an unmoved rook of its
\* colour on the corner and a square strictly between king and rook is
\* occupied, the answer is CannotCastleThroughPiece
C13_CastleThroughPieceRejected ==
    \A start \in AllSquares :
        \A piece \in ProbeOf("King", start), dest \in TwoFileShifts(start) :
            LET corner == get_piece_at_location(Self, Corner(start, dest))
            IN  (/\ PassesUniversal(piece, start, dest)
                 /\ ~piece.has_moved
                 /\ IsSome(corner)
                 /\ Unwrap(corner) = Piece_new("Rook", piece.color)
                 /\ \E d \in Between(start, Corner(start, dest)) :
                        IsSome(get_piece_at_location(Self, d)))
                => is_valid_move(Self, piece, start, dest)
                      = Err("CannotCastleThroughPiece")

\* C14: every answer of the checker with move_type Castling is not capturing,
\* also when the king's target square holds an opposing piece
C14_CastlingNeverCaptures ==
    \A start \in AllSquares :
        \A piece \in ProbeOf("King", start), dest \in AllSquares :
            LET v == is_valid_move(Self, piece, start, dest)
            IN  (v.ok /\ v.move_type = "Castling") => ~v.capturing

\* C15: in every position reached through move_piece no call has hit the
\* fatal "captured piece that didn't exist", and whenever the checker accepts
\* a move of a piece picked from its square as capturing, the captured-piece
\* square the applier computes for it holds a piece
C15_CheckerAndApplierAgree ==
    /\ status = "running"
    /\ \A start \in ProbeSquares, dest \in ProbeSquares :
          LET mover == get_piece_at_location(Self, start)
          IN  IsSome(mover) =>
                LET v == is_valid_move(Self, Unwrap(mover), start, dest)
                    idx == get_captured_piece_idx(
                               Self, capture_result(v), Move(Unwrap(mover), start, dest))
                IN  (v.ok /\ v.capturing) =>
                        /\ IsSome(idx)
                        /\ Unwrap(idx) \in DOMAIN board
                        /\ IsSome(board[Unwrap(idx)])

\* How many ranks dest lies ahead of start for a piece of the colour
\* (negative when it lies behind)
Advance(color, start, dest) == (dest.rank - start.rank) * Forward(color)

\* C16: a pawn's step is bounded by has_moved.  Unmoved, a same-file advance
\* of 1 or 2 ranks onto an empty square is accepted as Normal, not capturing;
\* moved, only a 1-rank advance is accepted and a rank difference above 1 is
\* answered RankDifferenceGreater.  The distance is checked before the
\* direction, and a move within the distance that does not advance is
\* answered PawnMustMoveForward
C16_PawnStepBoundedByHasMoved ==
    \A start \in ProbeSquares, dest \in AllSquares :
        \A piece \in ProbeOf("Pawn", start) :
            PassesUniversal(piece, start, dest) =>
                LET v == is_valid_move(Self, piece, start, dest)
                    dr == abs_diff(dest.rank, start.rank)
                    adv == Advance(piece.color, start, dest)
                    max_step == IF piece.has_moved THEN 1 ELSE 2
                IN  /\ (/\ ~piece.has_moved
                        /\ dest.file = start.file
                        /\ adv \in {1, 2}
                        /\ ~IsSome(get_piece_at_location(Self, dest)))
                       => v = Ok("Normal", FALSE)
                    /\ (piece.has_moved /\ v.ok) => adv = 1
                    /\ dr > max_step => v = Err("RankDifferenceGreater")
                    /\ (dr <= max_step /\ adv <= 0) => v = Err("PawnMustMoveForward")

C18_PawnDiagonalCaptureNormal ==
    \A start \in ProbeSquares, dest \in ProbeSquares :
        \A piece \in ProbeOf("Pawn", start) :
            LET occupant == get_piece_at_location(Self, dest)
            IN  (/\ Advance(piece.color, start, dest) = 1
                 /\ abs_diff(dest.file, start.file) = 1
                 /\ IsSome(occupant)
                 /\ Unwrap(occupant).color # piece.color)
                => is_valid_move(Self, piece, start, dest) = Ok("Normal", TRUE)

\* C19: a rook's move that passes the universal preconditions is accepted,
\* as Normal and capturing iff dest holds an opposing piece, iff dest is on
\* start's rank or file, and is answered RookMustMoveCardinal otherwise:
\* start, dest and the occupant of dest decide, whatever stands in between
C19_RookCardinalOnly ==
    \A start \in AllSquares, dest \in AllSquares :
        \A piece \in ProbeOf("Rook", start) :
            PassesUniversal(piece, start, dest) =>
                is_valid_move(Self, piece, start, dest) =
                    IF dest.rank = start.rank \/ dest.file = start.file
                    THEN Ok("Normal", IsSome(get_piece_at_location(Self, dest)))
                    ELSE Err("RookMustMoveCardinal")

\* C19 witness: the rook went from h1 to h3 over the pawn on h2
C19_Witness ==
    /\ IsSome(lastResult) /\ Verdict = Ok("Normal", FALSE)
    /\ Given.piece.piece_type = "Rook"
    /\ Given.start_pos = PieceLoc(0, 7) /\ Given.end_pos = PieceLoc(2, 7)
    /\ IsSome(get_piece_at_location(Self, PieceLoc(1, 7)))
    /\ get_piece_at_location(Self, PieceLoc(2, 7)) =
          Some([Given.piece EXCEPT !.has_moved = TRUE])

\* C20: a bishop's move that passes the universal preconditions is accepted,
\* as Normal and capturing iff dest holds an opposing piece, iff the rank and
\* file differences are equal in size, and is answered BishopMustMoveDiagonal
\* otherwise
C20_BishopDiagonalOnly ==
    \A start \in AllSquares, dest \in AllSquares :
        \A piece \in ProbeOf("Bishop", start) :
            PassesUniversal(piece, start, dest) =>
                is_valid_move(Self, piece, start, dest) =
                    IF abs_diff(dest.rank, start.rank) = abs_diff(dest.file, start.file)
                    THEN Ok("Normal", IsSome(get_piece_at_location(Self, dest)))
                    ELSE Err("BishopMustMoveDiagonal")

\* C20 witness: the bishop took the pawn on h6 from c1
C20_Witness ==
    /\ IsSome(lastResult) /\ Verdict = Ok("Normal", TRUE)
    /\ Given.piece.piece_type = "Bishop"
    /\ Given.start_pos = PieceLoc(0, 2) /\ Given.end_pos = PieceLoc(5, 7)
    /\ Buried(graveyard, Black, "Pawn") = 1

----------------------------------------------------------------------------
(* C21 - C30 *)

\* The targets the checker is asked about: every square and three off the board
AllTargets == AllSquares \cup {PieceLoc(8, 3), PieceLoc(3, 8), PieceLoc(9, 9)}

\* The piece with another kind, same colour and has_moved
AsKind(piece, kind) == [piece EXCEPT !.piece_type = kind]

\* C21: a queen's move is accepted exactly when the same move of a rook or
\* of a bishop of the same colour and has_moved is, with that answer, and is
\* answered MoveNotStraightLine exactly when the rook's is answered
\* RookMustMoveCardinal and the bishop's BishopMustMoveDiagonal
C21_QueenIsRookOrBishop ==
    \A start \in AllSquares, dest \in AllTargets :
        \A piece \in ProbePieces(start) :
            piece.piece_type = "Queen" =>
                LET q == is_valid_move(Self, piece, start, dest)
                    r == is_valid_move(Self, AsKind(piece, "Rook"), start, dest)
                    b == is_valid_move(Self, AsKind(piece, "Bishop"), start, dest)
                IN  /\ q.ok <=> (r.ok \/ b.ok)
                    /\ r.ok => q = r
                    /\ b.ok => q = b
                    /\ (q = Err("MoveNotStraightLine"))
                          <=> (/\ r = Err("RookMustMoveCardinal")
                               /\ b = Err("BishopMustMoveDiagonal"))

\* C21 witness: the queen took the queen on d8 from d1, along the file
C21_Witness ==
    /\ IsSome(lastResult) /\ Verdict = Ok("Normal", TRUE)
    /\ Given.piece.piece_type = "Queen"
    /\ Given.start_pos = PieceLoc(0, 3) /\ Given.end_pos = PieceLoc(7, 3)
    /\ Buried(graveyard, Black, "Queen") = 1

\* C22: a knight's move that passes the universal preconditions is accepted,
\* as Normal and capturing iff dest holds an opposing piece, iff the rank and
\* file differences are 2 and 1 or 1 and 2, and is answered KnightInvalidMove
\* otherwise
C22_KnightLShapeOnly ==
    \A start \in AllSquares, dest \in AllSquares :
        \A piece \in ProbeOf("Knight", start) :
            PassesUniversal(piece, start, dest) =>
                is_valid_move(Self, piece, start, dest) =
                    IF <<abs_diff(dest.rank, start.rank), abs_diff(dest.file, start.file)>>
                          \in {<<2, 1>>, <<1, 2>>}
                    THEN Ok("Normal", IsSome(get_piece_at_location(Self, dest)))
                    ELSE Err("KnightInvalidMove")

\* C22 witness: the knight took the pawn on h4 from f3
C22_Witness ==
    /\ IsSome(lastResult) /\ Verdict = Ok("Normal", TRUE)
    /\ Given.piece.piece_type = "Knight"
    /\ Given.start_pos = PieceLoc(2, 5) /\ Given.end_pos = PieceLoc(3, 7)
    /\ Buried(graveyard, Black, "Pawn") = 1

\* C23: a king's move that passes the universal preconditions and is not a
\* same-rank shift of two files is accepted, as Normal and capturing iff dest
\* holds an opposing piece, iff rank and file differ by at most 1; otherwise
\* it is answered FileDifferenceGreater when the file differs by more than 1
\* and RankDifferenceGreater when only the rank does
C23_KingOneStep ==
    \A start \in AllSquares, dest \in AllSquares :
        \A piece \in ProbeOf("King", start) :
            (PassesUniversal(piece, start, dest) /\ dest \notin TwoFileShifts(start)) =>
                is_valid_move(Self, piece, start, dest) =
                    IF /\ abs_diff(dest.rank, start.rank) <= 1
                       /\ abs_diff(dest.file, start.file) <= 1
                    THEN Ok("Normal", IsSome(get_piece_at_location(Self, dest)))
                    ELSE IF abs_diff(dest.file, start.file) > 1
                    THEN Err("FileDifferenceGreater")
                    ELSE Err("RankDifferenceGreater")

\* C23 witness: the king took the queen on d8 from e8
C23_Witness ==
    /\ IsSome(lastResult) /\ Verdict = Ok("Normal", TRUE)
    /\ Given.piece.piece_type = "King"
    /\ Given.start_pos = PieceLoc(7, 4) /\ Given.end_pos = PieceLoc(7, 3)
    /\ Buried(graveyard, White, "Queen") = 1

\* The u8 coordinates get_piece_at_location is asked about
U8Probes ==
    {PieceLoc(r, f) : r \in {0, 1, 7, 8, 31, 32, 255}, f \in {0, 7, 8, 9, 255}}

\* C24: for every coordinate with rank > 7 or file > 7 get_piece_at_location
\* returns None, and it neither panics nor overflows
C24_LookupTotal ==
    \A loc \in U8Probes :
        (loc.rank > 7 \/ loc.file > 7) =>
            /\ ~index_overflows(loc)
            /\ \A o \in lookup_outcomes(Self, loc) : ~o.panicked /\ o.value = None

\* The kinds along a back rank, from file 0 to file 7
BackRankKinds ==
    <<"Rook", "Knight", "Bishop", "Queen", "King", "Bishop", "Knight", "Rook">>

\* The occupant of a square in the standard starting position
StandardOccupant(sq) ==
    CASE sq.rank = 0 -> Some([piece_type |-> BackRankKinds[sq.file + 1],
                              color |-> White, has_moved |-> FALSE])
      [] sq.rank = 1 -> Some([piece_type |-> "Pawn", color |-> White, has_moved |-> FALSE])
      [] sq.rank = 6 -> Some([piece_type |-> "Pawn", color |-> Black, has_moved |-> FALSE])
      [] sq.rank = 7 -> Some([piece_type |-> BackRankKinds[sq.file + 1],
                              color |-> Black, has_moved |-> FALSE])
      [] OTHER -> None

\* C25: the position Board::new() yields is the standard starting position:
\* 32 pieces, each side's pieces on its back rank in the order R N B Q K B N R
\* and its pawns on the rank ahead, ranks 2 to 5 empty, nothing moved, White
\* to move, no history and every capture count 0
C25_StandardStart ==
    lastMove = None =>
        /\ Self = Board_new
        /\ DOMAIN board = 0..63
        /\ \A sq \in AllSquares : get_piece_at_location(Self, sq) = StandardOccupant(sq)
        /\ Occupied(board) = 32
        /\ current_turn = White
        /\ move_list = <<>>
        /\ \A c \in PieceColor, k \in PieceType : Buried(graveyard, c, k) = 0

\* C25 witness: the position as constructed, before any call of move_piece
C25_Witness ==
    /\ lastMove = None /\ lastResult = None
    /\ Self = Board_new
    /\ OccupiedBy(board, White) = 16 /\ OccupiedBy(board, Black) = 16

\* Every piece of a board whose has_moved is false stands where the starting
\* layout has it
UnmovedInPlace(b) ==
    \A i \in DOMAIN b :
        (IsSome(b[i]) /\ ~Unwrap(b[i]).has_moved) => b[i] = generate_default_board[i]

\* C26: has_moved is one-way: every piece a step puts on a square has
\* has_moved = true, and after the step every piece whose has_moved is false
\* stands on its square of the starting layout
C26_HasMovedOneWay ==
    [][/\ \A i \in DOMAIN board' :
             (IsSome(board'[i]) /\ board'[i] # board[i]) => Unwrap(board'[i]).has_moved
       /\ UnmovedInPlace(board')]_vars

\* C26 witness: the rook is back on h1, where it started, with has_moved = true
C26_Witness ==
    /\ board[get_board_index_from_loc(PieceLoc(0, 7))]
          = Some([piece_type |-> "Rook", color |-> White, has_moved |-> TRUE])
    /\ UnmovedInPlace(board)
    /\ status = "running"

\* C27: Move::new returns Ok exactly when the checker accepts, with the
\* checker's move_type and capturing, and the checker's error otherwise; and
\* every entry a step appends to move_list is a move the checker accepts in
\* the position the step started from
C27_NoInvalidMoveCommitted ==
    [][/\ \A start \in ProbeSquares, dest \in ProbeTargets :
             \A piece \in ProbePieces(start) :
                 LET v == is_valid_move(Self, piece, start, dest)
                     n == Move_new(Self, piece, start, dest)
                 IN  /\ n.ok <=> v.ok
                     /\ v.ok => n.move = Some([piece |-> piece, start_pos |-> start,
                                                end_pos |-> dest,
                                                move_type |-> v.move_type,
                                                capturing |-> v.capturing])
                     /\ ~v.ok => (n.move = None /\ n.err = v.err)
       /\ move_list' # move_list =>
             /\ Len(move_list') = Len(move_list) + 1
             /\ SubSeq(move_list', 1, Len(move_list)) = move_list
             /\ LET m == move_list'[Len(move_list')]
                IN  is_valid_move(Self, m.piece, m.start_pos, m.end_pos).ok]_vars

\* C27 witness: after four applied moves a move was refused: Move::new gives
\* the checker's error for it and move_list still has four entries
C27_Witness ==
    /\ Len(move_list) = 4
    /\ IsSome(lastResult) /\ ~Verdict.ok
    /\ Move_new(Self, Given.piece, Given.start_pos, Given.end_pos)
          = [ok |-> FALSE, move |-> None, err |-> Verdict.err]

\* C28: after move_piece applies an accepted move the start square is empty,
\* dest holds the piece that stood on start (same kind and colour) with
\* has_moved = true, and every square other than start, dest and the
\* captured-piece square holds what it held before
C28_AppliedMoveFrame ==
    [][(Returned /\ Unwrap(lastResult').ok) =>
          LET m == Unwrap(lastMove')
              s == get_board_index_from_loc(m.start_pos)
              d == get_board_index_from_loc(m.end_pos)
              c == get_board_index_from_loc(CapturedSquare(Unwrap(lastResult'), m))
              moved == Unwrap(board[s])
          IN  /\ DOMAIN board' = DOMAIN board
              /\ board'[s] = None
              /\ board'[d] = Some([piece_type |-> moved.piece_type,
                                   color |-> moved.color, has_moved |-> TRUE])
              /\ \A i \in DOMAIN board \ {s, d, c} : board'[i] = board[i]]_vars

\* C28 witness: a castling was applied after other moves: the king's start
\* square is empty and the king stands on dest
C28_Witness ==
    /\ IsSome(lastResult) /\ Verdict.ok /\ Verdict.move_type = "Castling"
    /\ status = "running"
    /\ move_list[Len(move_list)] = Given
    /\ board[get_board_index_from_loc(Given.start_pos)] = None
    /\ IsSome(board[get_board_index_from_loc(Given.end_pos)])

C30_CapturedSquareChoice ==
    [][/\ \A start \in AllSquares, dest \in AllSquares :
             LET o == get_piece_at_location(Self, start)
             IN  (IsSome(o) /\ Unwrap(o).color = current_turn) =>
                   LET v == is_valid_move(Self, Unwrap(o), start, dest)
                       m == Move(Unwrap(o), start, dest)
                       idx == get_captured_piece_idx(Self, capture_result(v), m)
                   IN  v.ok =>
                         /\ ~v.capturing => idx = None
                         /\ (v.capturing /\ v.move_type = "Normal") =>
                               idx = Some(get_board_index_from_loc(dest))
                         /\ v.move_type = "EnPassant" =>
                               /\ idx = Some(get_board_index_from_loc(
                                                PieceLoc(start.rank, dest.file)))
                               /\ IsSome(get_previous_move(Self))
                               /\ Unwrap(get_previous_move(Self)).end_pos
                                     = PieceLoc(start.rank, dest.file)
       /\ (Returned /\ Unwrap(lastResult').ok /\ Unwrap(lastResult').capturing
              /\ Unwrap(lastResult').move_type \in {"Normal", "EnPassant"}) =>
             LET sq == CapturedSquare(Unwrap(lastResult'), Unwrap(lastMove'))
                 victim == board[get_board_index_from_loc(sq)]
             IN  /\ IsSome(victim)
                 /\ \A c \in PieceColor, k \in PieceType :
                       IF c = Unwrap(victim).color /\ k = Unwrap(victim).piece_type
                       THEN Buried(graveyard', c, k) > Buried(graveyard, c, k)
                       ELSE Buried(graveyard', c, k) = Buried(graveyard, c, k)]_vars

----------------------------------------------------------------------------
(* C31 - C38 *)

\* C31: castling is accepted only when the piece on the corner square is a
\* rook of the mover's colour: when an unmoved king's two-file shift passes
\* the universal preconditions and the corner holds a piece that is not a
\* rook, or a rook of the other colour, the answer is NoRookToCastleWith
C31_CastlingNeedsOwnRook ==
    \A start \in AllSquares :
        \A piece \in ProbeOf("King", start), dest \in TwoFileShifts(start) :
            (PassesUniversal(piece, start, dest) /\ ~piece.has_moved) =>
                LET v == is_valid_move(Self, piece, start, dest)
                    corner == get_piece_at_location(Self, Corner(start, dest))
                    own_rook == /\ IsSome(corner)
                                /\ Unwrap(corner).piece_type = "Rook"
                                /\ Unwrap(corner).color = piece.color
                IN  /\ (v.ok /\ v.move_type = "Castling") => own_rook
                    /\ (IsSome(corner) /\ ~own_rook) => v = Err("NoRookToCastleWith")

\* C32: move_piece is total: whatever Move it is handed, a start square off
\* the board included, the call returns a position and does not panic
C32_MovePieceTotal ==
    [][IsSome(lastMove') => status' = "running"]_vars

\* C34: over any sequence of move_piece calls with arbitrary Move arguments
\* the number of occupied squares never increases and never exceeds 32
C34_NoPieceAdded ==
    [][/\ Occupied(board') <= Occupied(board)
       /\ Occupied(board') <= 32]_vars

\* C33: capture counts are monotone: for every colour and kind the count
\* after a step is at least the count before it, and it is greater only on
\* a step whose move was accepted as capturing
C33_TallyMonotone ==
    [][\A c \in PieceColor, k \in PieceType :
          /\ Buried(graveyard', c, k) >= Buried(graveyard, c, k)
          /\ Buried(graveyard', c, k) > Buried(graveyard, c, k) =>
                /\ Returned
                /\ Unwrap(lastResult').ok
                /\ Unwrap(lastResult').capturing]_vars

\* C33 witness: a capture was applied when a count already stood at 1 or
\* more, and two kinds of one colour have a count
C33_Witness ==
    /\ IsSome(lastResult) /\ Verdict.ok /\ Verdict.capturing
    /\ status = "running"
    /\ move_list[Len(move_list)] = Given
    /\ \E c \in PieceColor : \E k1, k2 \in PieceType :
          k1 # k2 /\ Buried(graveyard, c, k1) >= 1 /\ Buried(graveyard, c, k2) >= 1

\* C35: a result with move_type EnPassant is returned only when dest is
\* empty: a pawn's diagonal move onto a square that holds an opposing piece
\* is classified Normal, and applying it tallies the piece on dest and
\* nothing else
C35_EnPassantOnlyOntoEmpty ==
    [][/\ \A start \in ProbeSquares, dest \in ProbeSquares :
             \A piece \in ProbeOf("Pawn", start) :
                 LET v == is_valid_move(Self, piece, start, dest)
                 IN  (v.ok /\ v.move_type = "EnPassant") =>
                        get_piece_at_location(Self, dest) = None
       /\ (/\ Returned /\ Unwrap(lastResult').ok
           /\ Unwrap(lastMove').piece.piece_type = "Pawn"
           /\ IsSome(get_piece_at_location(Self, Unwrap(lastMove').end_pos))) =>
             LET victim == Unwrap(get_piece_at_location(Self, Unwrap(lastMove').end_pos))
             IN  /\ Unwrap(lastResult') = Ok("Normal", TRUE)
                 /\ \A c \in PieceColor, k \in PieceType :
                       (c # victim.color \/ k # victim.piece_type) =>
                           Buried(graveyard', c, k) = Buried(graveyard, c, k)
                 /\ Buried(graveyard', victim.color, victim.piece_type)
                       > Buried(graveyard, victim.color, victim.piece_type)]_vars

\* C36: no piece is captured by its own side: whenever a capture count of a
\* colour grows in a step, the move applied in that step was made by a piece
\* of the other colour
C36_NoOwnCapture ==
    [][\A c \in PieceColor, k \in PieceType :
          Buried(graveyard', c, k) > Buried(graveyard, c, k) =>
              /\ IsSome(lastMove')
              /\ Unwrap(lastMove').piece.color = flip(c)]_vars

\* The square a two-rank advance passes over
Skipped(start, dest) == PieceLoc((start.rank + dest.rank) \div 2, start.file)

\* C37: an unmoved pawn's two-rank advance on its file is accepted, as
\* Normal and not capturing, whenever dest is empty, whether or not the
\* square it passes over is occupied
C37_TwoStepIgnoresSkippedSquare ==
    \A start \in AllSquares :
        \A piece \in ProbeOf("Pawn", start) :
            LET dest == PieceLoc(start.rank + 2 * Forward(piece.color), start.file)
            IN  (/\ ~piece.has_moved
                 /\ dest \in AllSquares
                 /\ get_piece_at_location(Self, dest) = None)
                => is_valid_move(Self, piece, start, dest) = Ok("Normal", FALSE)

\* C37 witness: a pawn's two-rank advance was applied over an occupied square
C37_Witness ==
    /\ IsSome(lastResult) /\ Verdict = Ok("Normal", FALSE)
    /\ status = "running"
    /\ Given.piece.piece_type = "Pawn" /\ ~Given.piece.has_moved
    /\ Given.start_pos.file = Given.end_pos.file
    /\ abs_diff(Given.end_pos.rank, Given.start_pos.rank) = 2
    /\ IsSome(get_piece_at_location(Self, Skipped(Given.start_pos, Given.end_pos)))
    /\ move_list[Len(move_list)] = Given
    /\ get_piece_at_location(Self, Given.end_pos)
          = Some([Given.piece EXCEPT !.has_moved = TRUE])

\* A Move with the fields move_type and capturing it carries (game/moves.rs)
Carrying(m, move_type, capturing) ==
    [piece |-> m.piece, start_pos |-> m.start_pos, end_pos |-> m.end_pos,
     move_type |-> move_type, capturing |-> capturing]

\* The Moves the caller of Spec can hand over in the current position
Offered ==
    {Move(Unwrap(get_piece_at_location(Self, cm[1])), cm[1], cm[2]) :
        cm \in {x \in CallerMoves : IsSome(get_piece_at_location(Self, x[1]))}}

\* C38: what move_piece returns depends only on the board and on the Move's
\* piece, start_pos and end_pos: Moves that differ only in the move_type and
\* capturing they carry give the same verdict and the same position
C38_CarriedFieldsIgnored ==
    \A m \in Offered :
        \A t1, t2 \in {"Normal", "EnPassant", "Castling"}, c1, c2 \in BOOLEAN :
            move_piece(Self, Carrying(m, t1, c1)) = move_piece(Self, Carrying(m, t2, c2))

\* C38 witness: a Move carrying Normal, not capturing, is applied as an en
\* passant capture in the current position, and one as a castling
C38_Witness ==
    /\ \E m \in Offered :
          LET out == move_piece(Self, Carrying(m, "Normal", FALSE))
          IN  /\ out.verdict = Ok("EnPassant", TRUE)
              /\ ~out.panicked
              /\ out.next.graveyard # graveyard
    /\ \E m \in Offered :
          move_piece(Self, Carrying(m, "Normal", TRUE)).verdict = Ok("Castling", FALSE)

====
